---- MODULE Spec2Model ----
(***************************************************************************)
(* Model of mpipeline.Pipeline (src/mpipeline/pipeline.py): a chain of     *)
(* multiprocessing pools, one per stage, driven by the generator           *)
(* Pipeline.run, with the module-level force_exit flag shared by every     *)
(* run of the host program.                                                *)
(*                                                                         *)
(* Stage indices and sequence numbers are 0-based as in the source.        *)
(* A pool is modelled by what multiprocessing.pool does for it: a task     *)
(* handler that turns the iterable handed to imap into tasks (eagerly, in  *)
(* its own thread), worker slots that take tasks from the pool's inqueue,  *)
(* and a result iterator that hands results over in submission order       *)
(* (imap) or completion order (imap_unordered).                            *)
(***************************************************************************)
EXTENDS Integers, Sequences, FiniteSets, TLC

\* ---- bounds of the model ------------------------------------------------
MaxStages == 2
MaxWorkers == 2
MaxLen == 2

StageRange == 0..(MaxStages - 1)
SlotRange == 1..MaxWorkers
\* the payloads the inputs of a run are drawn from
Payloads == {1, 2}

VARIABLES
    force_exit,   \* pipeline.py:28, shared by all runs of the host program
    stages,       \* self.stages: sequence of worker_count, one per stage
    running,      \* self._running
    pools,        \* self._pools: sequence of stage indices with a live pool
    pc,           \* position of the controller (the generator run)
    inputs,       \* the inputs of the current run
    ordered,      \* ordered_result of the current run
    poolState,    \* per stage: "none", "run" or "terminated"
    genCount,     \* per stage: number of tasks its imap has generated
    genDone,      \* per stage: the imap task generator is exhausted
    inqueue,      \* per stage: tasks waiting for a worker slot
    slot,         \* per stage and slot: the item the worker is processing
    results,      \* per stage: results not yet handed over, completion order
    taken,        \* per stage: number of results handed to the consumer
    disposed,     \* per stage and slot: calls of the worker's __dispose__
    cleaned,      \* per stage: _cleanup_worker tasks completed
    stopIdx,      \* _stop_pools: index in self._pools of the pool being stopped
    stopPhase,    \* _stop_pools: "map" (before pool.map) or "wait" (inside it)
    stopFrom,     \* _stop_pools: called from "init" (line 142) or "finally"
    outputs,      \* history: what run has yielded to the caller
    raised,       \* history: the error run raised to the caller, if any
    caught,       \* history: the WorkerException caught at line 210, if any
    closed,       \* history: the caller closed the generator
    ctorFailed,   \* history: a pool constructor failed in _init_pools
    failed,       \* history: the process calls that failed
    startFE,      \* history: force_exit when the run started
    mapRaised,    \* _stop_pools: pool.map of line 83 raised (caught at line 84)
    tdErrors,     \* history: <<kind, stage>> of the errors raised during teardown
    termCalls,    \* history: per stage, passes of _stop_pools over its pool
    alive,        \* per stage and slot: the slot has a worker thread/process
    initFailed,   \* history: _init_worker raised in some slot
    entered,      \* history: per stage, <<sequence number, payload>> of the items fed to it
    bar,          \* the main tqdm bar of self._progress: "none", "open" or "closed"
    total,        \* total of line 187: <<n>>, or <<>> for None (inputs has no __len__)
    notified,     \* history: calls of update_main_progress(1)
    cleanups,     \* history: calls of self._progress.cleanup()
    other,        \* a run of the same Pipeline suspended at its yield while another
                  \* run is driven: <<>> or <<what is left of it>>
    left          \* history: per stage, <<sequence number in, out>> of processed items

poolVars == <<poolState, genCount, genDone, inqueue, slot, results, taken,
              disposed, cleaned>>
stopVars == <<stopIdx, stopPhase, stopFrom>>
histVars == <<outputs, raised, caught, closed, ctorFailed, failed, startFE>>
auxVars == <<mapRaised, tdErrors, termCalls>>
initVars == <<alive, initFailed>>
seqVars == <<entered, left>>
progVars == <<bar, total, notified, cleanups>>
vars == <<force_exit, stages, running, pools, pc, inputs, ordered, poolVars,
          stopVars, histVars, auxVars, initVars, seqVars, progVars, other>>

\* ---- values -------------------------------------------------------------
\* pipeline.py:30
FORCE_EXIT_EXCEPTION ==
    [id |-> "FORCE_EXIT_EXCEPTION", msg |-> "Force exit signal received"]

\* what a worker's __process__ can raise: any error, with any message
WorkerErrors ==
    { [id |-> "worker_error", msg |-> m] :
        m \in {"boom", "Force exit signal received"} }

\* an error of a pool constructor
PoolError == [id |-> "pool_error", msg |-> "cannot start pool"]

\* str(exception)
Str(e) == e.msg

\* WorkerException(orig_exc, worker_name, inp); <<>> stands for None
WorkerException(e, name, inp) ==
    [orig_exc |-> e, worker_name |-> name, inp |-> inp]

\* an error run raises that is not a WorkerException: recorded in the same
\* shape, with no worker name and no input
Plain(e) == [orig_exc |-> e, worker_name |-> <<>>, inp |-> <<>>]

\* WorkerException.re_raise: the error the caller gets keeps the original
\* error, the worker's type name and the offending input
ReRaise(exc) == exc

\* the name of the worker class of a stage (stages use distinct classes)
WorkerName(s) == <<s>>

\* the worker's __process__ of stage s: stages alternate doubling and adding 1
Process(s, x) == IF s % 2 = 0 THEN 2 * x ELSE x + 1

NumStages == Len(stages)
Stages == 0..(NumStages - 1)
LastStage == NumStages - 1
Slots(s) == 1..stages[s + 1]

Idle == [busy |-> FALSE, idx |-> 0, seq |-> 0, inp |-> 0]

ItemTask(i, n, x) == [kind |-> "item", idx |-> i, seq |-> n, inp |-> x, exc |-> <<>>]
ReraiseTask(i, e) == [kind |-> "reraise", idx |-> i, seq |-> 0, inp |-> 0, exc |-> <<e>>]
CleanupTask == [kind |-> "cleanup", idx |-> 0, seq |-> 0, inp |-> 0, exc |-> <<>>]

Success(i, n, d) == [idx |-> i, ok |-> TRUE, seq |-> n, data |-> d, exc |-> <<>>]
Failure(i, e) == [idx |-> i, ok |-> FALSE, seq |-> 0, data |-> 0, exc |-> <<e>>]

\* ---- the result iterator of a pool (imap / imap_unordered) ---------------
RemoveAt(q, k) == [j \in 1..(Len(q) - 1) |-> IF j < k THEN q[j] ELSE q[j + 1]]

\* a pool whose imap hands results over as they complete
NextPosCompletion(s) == IF Len(results[s]) > 0 THEN 1 ELSE 0

\* position in results[s] of the result next() returns, 0 if it has to wait
NextPos(s) ==
    IF ordered
    THEN IF \E k \in 1..Len(results[s]) : results[s][k].idx = taken[s]
         THEN CHOOSE k \in 1..Len(results[s]) : results[s][k].idx = taken[s]
         ELSE 0
    ELSE IF Len(results[s]) > 0 THEN 1 ELSE 0

\* next() raises StopIteration
Exhausted(s) == genDone[s] /\ taken[s] = genCount[s]

\* ---- initial state: Pipeline(stage) --------------------------------------
Init ==
    /\ force_exit = FALSE
    /\ \E n \in SlotRange : stages = <<n>>
    /\ running = FALSE
    /\ pools = <<>>
    /\ pc = "idle"
    /\ inputs = <<>>
    /\ ordered = TRUE
    /\ poolState = [s \in StageRange |-> "none"]
    /\ genCount = [s \in StageRange |-> 0]
    /\ genDone = [s \in StageRange |-> TRUE]
    /\ inqueue = [s \in StageRange |-> <<>>]
    /\ slot = [s \in StageRange |-> [w \in SlotRange |-> Idle]]
    /\ results = [s \in StageRange |-> <<>>]
    /\ taken = [s \in StageRange |-> 0]
    /\ disposed = [s \in StageRange |-> [w \in SlotRange |-> 0]]
    /\ cleaned = [s \in StageRange |-> 0]
    /\ stopIdx = 0
    /\ stopPhase = "map"
    /\ stopFrom = "finally"
    /\ outputs = <<>>
    /\ raised = <<>>
    /\ caught = <<>>
    /\ closed = FALSE
    /\ ctorFailed = FALSE
    /\ failed = {}
    /\ startFE = FALSE
    /\ mapRaised = FALSE
    /\ tdErrors = {}
    /\ termCalls = [s \in StageRange |-> 0]
    /\ alive = [s \in StageRange |-> [w \in SlotRange |-> TRUE]]
    /\ initFailed = FALSE
    /\ entered = [s \in StageRange |-> {}]
    /\ left = [s \in StageRange |-> {}]
    /\ bar = "none"
    /\ total = <<>>
    /\ notified = 0
    /\ cleanups = 0
    /\ other = <<>>

\* ---- Pipeline.then -------------------------------------------------------
Then ==
    /\ pc \in {"idle", "config_error"}
    /\ NumStages < MaxStages
    /\ \E n \in SlotRange : stages' = Append(stages, n)
    /\ UNCHANGED <<force_exit, running, pools, pc, inputs, ordered, poolVars,
                   stopVars, histVars>>
    /\ UNCHANGED auxVars
    /\ UNCHANGED initVars
    /\ UNCHANGED seqVars
    /\ UNCHANGED progVars
    /\ UNCHANGED other

\* a run that starts with a fresh flag
FlagReset == FALSE

\* lines 27-28, 186-192: the flag is a module-level value; run does not set
\* it when it starts
FlagOnRun == force_exit

\* the caller empties the public list self.stages between two runs; what is
\* left of a run that has ended (its terminated pools, its results) is dropped
ClearStages ==
    /\ pc \in {"idle", "ended"}
    /\ other = <<>>
    /\ NumStages > 0
    /\ stages' = <<>>
    /\ pc' = "idle"
    /\ inputs' = <<>>
    /\ ordered' = TRUE
    /\ poolState' = [s \in StageRange |-> "none"]
    /\ genCount' = [s \in StageRange |-> 0]
    /\ genDone' = [s \in StageRange |-> TRUE]
    /\ inqueue' = [s \in StageRange |-> <<>>]
    /\ slot' = [s \in StageRange |-> [w \in SlotRange |-> Idle]]
    /\ results' = [s \in StageRange |-> <<>>]
    /\ taken' = [s \in StageRange |-> 0]
    /\ disposed' = [s \in StageRange |-> [w \in SlotRange |-> 0]]
    /\ cleaned' = [s \in StageRange |-> 0]
    /\ outputs' = <<>>
    /\ raised' = <<>>
    /\ caught' = <<>>
    /\ closed' = FALSE
    /\ ctorFailed' = FALSE
    /\ failed' = {}
    /\ startFE' = FALSE
    /\ tdErrors' = {}
    /\ termCalls' = [s \in StageRange |-> 0]
    /\ alive' = [s \in StageRange |-> [w \in SlotRange |-> TRUE]]
    /\ initFailed' = FALSE
    /\ entered' = [s \in StageRange |-> {}]
    /\ left' = [s \in StageRange |-> {}]
    /\ bar' = "none"
    /\ total' = <<>>
    /\ notified' = 0
    /\ cleanups' = 0
    /\ UNCHANGED <<force_exit, running, pools, stopVars, mapRaised>>
    /\ UNCHANGED other

\* a run that does not look at the stage list
StagesMissingNever == FALSE

\* line 183: not self.stages
StagesMissing == NumStages = 0

\* line 184
ConfigError == [id |-> "ValueError", msg |-> "Pipeline has no stages"]

\* lines 183-184: run raises before it has touched anything
RunEmpty ==
    /\ pc \in {"idle", "ended", "config_error"}
    /\ StagesMissing
    /\ pc' = "config_error"
    /\ raised' = <<Plain(ConfigError)>>
    /\ UNCHANGED <<force_exit, stages, running, pools, inputs, ordered, poolVars,
                   stopVars, outputs, caught, closed, ctorFailed, failed, startFE,
                   auxVars, initVars>>
    /\ UNCHANGED seqVars
    /\ UNCHANGED progVars
    /\ UNCHANGED other

\* ---- Pipeline.run up to _init_pools (lines 183-192, 123) -----------------
\* progress: a main bar is shown (progress is not None, lines 189 and
\* pipeline_tqdm.py 46-54); sized: inputs has __len__ (line 187)
RunBody(progress, sized) ==
    /\ ~StagesMissing
    /\ \E n \in 0..MaxLen : \E inp \in [1..n -> Payloads] : inputs' = inp
    /\ \E o \in BOOLEAN : ordered' = o
    /\ running' = TRUE
    /\ pools' = <<>>
    /\ pc' = "init_pools"
    /\ poolState' = [s \in StageRange |-> "none"]
    /\ genCount' = [s \in StageRange |-> 0]
    /\ genDone' = [s \in StageRange |-> TRUE]
    /\ inqueue' = [s \in StageRange |-> <<>>]
    /\ slot' = [s \in StageRange |-> [w \in SlotRange |-> Idle]]
    /\ results' = [s \in StageRange |-> <<>>]
    /\ taken' = [s \in StageRange |-> 0]
    /\ disposed' = [s \in StageRange |-> [w \in SlotRange |-> 0]]
    /\ cleaned' = [s \in StageRange |-> 0]
    /\ stopIdx' = 0
    /\ stopPhase' = "map"
    /\ stopFrom' = "finally"
    /\ outputs' = <<>>
    /\ raised' = <<>>
    /\ caught' = <<>>
    /\ closed' = FALSE
    /\ ctorFailed' = FALSE
    /\ failed' = {}
    /\ startFE' = force_exit
    /\ mapRaised' = FALSE
    /\ tdErrors' = {}
    /\ termCalls' = [s \in StageRange |-> 0]
    /\ alive' = [s \in StageRange |-> [w \in SlotRange |-> TRUE]]
    /\ initFailed' = FALSE
    /\ entered' = [s \in StageRange |-> {}]
    /\ left' = [s \in StageRange |-> {}]
    /\ bar' = (IF progress THEN "open" ELSE "none")
    /\ total' = (IF sized THEN <<Len(inputs')>> ELSE <<>>)
    /\ notified' = 0
    /\ cleanups' = 0
    /\ force_exit' = FlagOnRun
    /\ UNCHANGED stages

\* run is called while no other run of this Pipeline is under way
RunWith(progress, sized) ==
    /\ pc \in {"idle", "ended", "config_error"}
    /\ other = <<>>
    /\ RunBody(progress, sized)
    /\ UNCHANGED other

\* run(inputs, ordered_result) on a list, with the default progress = None
Run == RunWith(FALSE, TRUE)

\* run(inputs, ordered_result, progress = 'total') on a list or on an iterable
\* without __len__
RunProgress == \E sized \in BOOLEAN : RunWith(TRUE, sized)

\* ---- Pipeline._init_pools (lines 121-143) -------------------------------
\* one pass of the loop: the pool of the next stage is created and appended;
\* its initializer constructs one worker per slot
CreatePool ==
    /\ pc = "init_pools"
    /\ Len(pools) < NumStages
    /\ pools' = Append(pools, Len(pools))
    /\ poolState' = [poolState EXCEPT ![Len(pools)] = "run"]
    /\ UNCHANGED <<force_exit, stages, running, pc, inputs, ordered, genCount,
                   genDone, inqueue, slot, results, taken, disposed, cleaned,
                   stopVars, histVars>>
    /\ UNCHANGED auxVars
    /\ UNCHANGED initVars
    /\ UNCHANGED seqVars
    /\ UNCHANGED progVars
    /\ UNCHANGED other

\* the pool constructor raises: line 142 stops the pools created so far
PoolCtorFails ==
    /\ pc = "init_pools"
    /\ Len(pools) < NumStages
    /\ ctorFailed' = TRUE
    /\ pc' = "stop_pools"
    /\ stopFrom' = "init"
    /\ stopIdx' = 0
    /\ stopPhase' = "map"
    /\ UNCHANGED <<force_exit, stages, running, pools, inputs, ordered, poolVars,
                   outputs, raised, caught, closed, failed, startFE>>
    /\ UNCHANGED auxVars
    /\ UNCHANGED initVars
    /\ UNCHANGED seqVars
    /\ UNCHANGED progVars
    /\ UNCHANGED other

\* ---- Pipeline.run, lines 193-209: imap is called on every pool -----------
StartStages ==
    /\ pc = "init_pools"
    /\ Len(pools) = NumStages
    /\ running
    /\ genDone' = [s \in StageRange |-> ~(s \in Stages)]
    /\ pc' = "running"
    /\ UNCHANGED <<force_exit, stages, running, pools, inputs, ordered, poolState,
                   genCount, inqueue, slot, results, taken, disposed, cleaned,
                   stopVars, histVars>>
    /\ UNCHANGED auxVars
    /\ UNCHANGED initVars
    /\ UNCHANGED seqVars
    /\ UNCHANGED progVars
    /\ UNCHANGED other

\* ---- the task handler of pool 0 iterates enumerate(inputs) (line 193) ----
Feed0 ==
    /\ poolState[0] = "run"
    /\ ~genDone[0]
    /\ IF genCount[0] < Len(inputs)
       THEN /\ inqueue' = [inqueue EXCEPT ![0] =
                   Append(@, ItemTask(genCount[0], genCount[0], inputs[genCount[0] + 1]))]
            /\ genCount' = [genCount EXCEPT ![0] = @ + 1]
            /\ entered' = [entered EXCEPT ![0] =
                   @ \cup {<<genCount[0], inputs[genCount[0] + 1]>>}]
            /\ UNCHANGED genDone
       ELSE /\ genDone' = [genDone EXCEPT ![0] = TRUE]
            /\ UNCHANGED <<inqueue, genCount, entered>>
    /\ UNCHANGED <<force_exit, stages, running, pools, pc, inputs, ordered, poolState,
                   slot, results, taken, disposed, cleaned, stopVars, histVars>>
    /\ UNCHANGED auxVars
    /\ UNCHANGED initVars
    /\ UNCHANGED left
    /\ UNCHANGED progVars
    /\ UNCHANGED other

\* lines 163-164 and pipeline_tqdm.py 72-73: update_stage_progress of stage s
\* calls update_main_progress(1) for the last stage only
MainProgress(s) == IF s = LastStage THEN 1 ELSE 0

\* line 160: _process_stage goes on only while self._running
KeepGoing == running

\* a _process_stage that numbers the items it passes on afresh
ForwardedRenumbered(s, r) == ItemTask(genCount[s], genCount[s], r.data)

\* lines 162 and 169: the pair (seq_num, data) of a result of stage s - 1 is
\* the next item of stage s
Forwarded(s, r) == ItemTask(genCount[s], r.seq, r.data)

\* ---- the task handler of pool s iterates _process_stage(s - 1, ...) ------
\* (lines 153-169 with is_final = False; the iterator raises what the worker
\* raised, and imap turns an error of its iterable into a task that raises it
\* again in pool s)
Feed(s) ==
    /\ s \in Stages
    /\ s > 0
    /\ poolState[s] = "run"
    /\ ~genDone[s]
    /\ LET u == s - 1
           k == NextPos(u)
       IN  IF k > 0
           THEN LET r == results[u][k] IN
                /\ results' = [results EXCEPT ![u] = RemoveAt(@, k)]
                /\ taken' = [taken EXCEPT ![u] = @ + 1]
                /\ IF r.ok
                   THEN IF KeepGoing
                        THEN /\ inqueue' = [inqueue EXCEPT ![s] =
                                    Append(@, Forwarded(s, r))]
                             /\ genCount' = [genCount EXCEPT ![s] = @ + 1]
                             /\ entered' = [entered EXCEPT ![s] =
                                    @ \cup {<<Forwarded(s, r).seq, Forwarded(s, r).inp>>}]
                             /\ notified' = notified + MainProgress(u)
                             /\ UNCHANGED genDone
                        ELSE /\ genDone' = [genDone EXCEPT ![s] = TRUE]
                             /\ UNCHANGED <<inqueue, genCount, entered, notified>>
                   ELSE /\ inqueue' = [inqueue EXCEPT ![s] =
                               Append(@, ReraiseTask(genCount[s], r.exc[1]))]
                        /\ genCount' = [genCount EXCEPT ![s] = @ + 1]
                        /\ genDone' = [genDone EXCEPT ![s] = TRUE]
                        /\ UNCHANGED <<entered, notified>>
           ELSE /\ Exhausted(u)
                /\ genDone' = [genDone EXCEPT ![s] = TRUE]
                /\ UNCHANGED <<inqueue, genCount, results, taken, entered, notified>>
    /\ UNCHANGED <<force_exit, stages, running, pools, pc, inputs, ordered, poolState,
                   slot, disposed, cleaned, stopVars, histVars>>
    /\ UNCHANGED auxVars
    /\ UNCHANGED initVars
    /\ UNCHANGED left
    /\ UNCHANGED <<bar, total, cleanups>>
    /\ UNCHANGED other

\* ---- _process_item (lines 50-61) and _cleanup_worker (lines 32-35) -------
\* a _process_item that does not look at the flag
GateAlwaysOpen == TRUE

\* line 52: the check of the flag before the item is touched
GateOpen == ~force_exit

\* line 53
ForceExitError(s) == WorkerException(FORCE_EXIT_EXCEPTION, WorkerName(s), <<>>)

\* a _process_item that attaches what the stage before received instead of
\* what its own worker received
ProcessErrorOriginal(e, s, inp) ==
    WorkerException(e, WorkerName(s),
        <<IF s = 0 THEN inp ELSE IF (s - 1) % 2 = 0 THEN inp \div 2 ELSE inp - 1>>)

\* line 61
ProcessError(e, s, inp) == WorkerException(e, WorkerName(s), <<inp>>)

\* a _process_item that returns its input
ProcessResultInput(t, s) == Success(t.idx, t.seq, t.inp)

\* line 59 (the elapsed time is left out)
ProcessResult(t, s) == Success(t.idx, t.seq, Process(s, t.inp))

\* a slot takes the next task of its pool; for an item this is line 52
WorkerTake(s, w) ==
    /\ s \in Stages
    /\ w \in Slots(s)
    /\ poolState[s] = "run"
    /\ alive[s][w]
    /\ ~slot[s][w].busy
    /\ inqueue[s] # <<>>
    /\ LET t == Head(inqueue[s]) IN
       /\ inqueue' = [inqueue EXCEPT ![s] = Tail(@)]
       /\ CASE t.kind = "item" ->
                 IF GateOpen
                 THEN /\ slot' = [slot EXCEPT ![s][w] =
                             [busy |-> TRUE, idx |-> t.idx, seq |-> t.seq, inp |-> t.inp]]
                      /\ UNCHANGED <<results, disposed, cleaned>>
                 ELSE /\ results' = [results EXCEPT ![s] =
                             Append(@, Failure(t.idx, ForceExitError(s)))]
                      /\ UNCHANGED <<slot, disposed, cleaned>>
            [] t.kind = "reraise" ->
                 /\ results' = [results EXCEPT ![s] = Append(@, Failure(t.idx, t.exc[1]))]
                 /\ UNCHANGED <<slot, disposed, cleaned>>
            [] t.kind = "cleanup" ->
                 /\ disposed' = [disposed EXCEPT ![s][w] = @ + 1]
                 /\ cleaned' = [cleaned EXCEPT ![s] = @ + 1]
                 /\ UNCHANGED <<slot, results>>
    /\ UNCHANGED <<force_exit, stages, running, pools, pc, inputs, ordered, poolState,
                   genCount, genDone, taken, stopVars, histVars>>
    /\ UNCHANGED auxVars
    /\ UNCHANGED initVars
    /\ UNCHANGED seqVars
    /\ UNCHANGED progVars
    /\ UNCHANGED other

\* lines 55-61: the worker's __process__ returns or raises
WorkerProcess(s, w) ==
    /\ s \in Stages
    /\ w \in Slots(s)
    /\ slot[s][w].busy
    /\ LET t == slot[s][w] IN
       \/ /\ results' = [results EXCEPT ![s] = Append(@, ProcessResult(t, s))]
          /\ left' = [left EXCEPT ![s] = @ \cup {<<t.seq, ProcessResult(t, s).seq>>}]
          /\ UNCHANGED failed
       \/ \E e \in WorkerErrors :
            /\ results' = [results EXCEPT ![s] =
                   Append(@, Failure(t.idx, ProcessError(e, s, t.inp)))]
            /\ failed' = failed \cup {[stage |-> s, seq |-> t.seq, inp |-> t.inp]}
            /\ UNCHANGED left
    /\ slot' = [slot EXCEPT ![s][w] = Idle]
    /\ UNCHANGED <<force_exit, stages, running, pools, pc, inputs, ordered, poolState,
                   genCount, genDone, inqueue, taken, disposed, cleaned, stopVars,
                   outputs, raised, caught, closed, ctorFailed, startFE>>
    /\ UNCHANGED auxVars
    /\ UNCHANGED initVars
    /\ UNCHANGED entered
    /\ UNCHANGED progVars
    /\ UNCHANGED other

\* ---- Pipeline.run: the caller's next() (lines 206, 210-224) --------------
\* lines 212 and 218: force_exit.value=True
ForceExitOnError == TRUE

\* a handler that raises every WorkerException again
SurfacedAll(exc) == TRUE

\* line 213: is the WorkerException raised again to the caller?
Surfaced(exc) == Str(exc.orig_exc) # Str(FORCE_EXIT_EXCEPTION)

\* the finally block (lines 220-224) is entered: line 221, then line 223
EnterFinally ==
    /\ running' = FALSE
    /\ pc' = "cleanup"
    /\ stopFrom' = "finally"
    /\ stopIdx' = 0
    /\ stopPhase' = "map"

Pull ==
    /\ pc = "running"
    /\ LET f == LastStage
           k == NextPos(f)
       IN  IF k > 0
           THEN LET r == results[f][k] IN
                /\ results' = [results EXCEPT ![f] = RemoveAt(@, k)]
                /\ taken' = [taken EXCEPT ![f] = @ + 1]
                /\ IF r.ok
                   THEN IF KeepGoing
                        THEN /\ outputs' = Append(outputs, r.data)
                             /\ notified' = notified + MainProgress(f)
                             /\ UNCHANGED <<force_exit, running, pc, stopVars,
                                            raised, caught>>
                        ELSE /\ EnterFinally
                             /\ UNCHANGED <<force_exit, outputs, raised, caught,
                                            notified>>
                   ELSE /\ caught' = <<r.exc[1]>>
                        /\ force_exit' = ForceExitOnError
                        /\ raised' = IF Surfaced(r.exc[1])
                                     THEN <<ReRaise(r.exc[1])>> ELSE <<>>
                        /\ EnterFinally
                        /\ UNCHANGED <<outputs, notified>>
           ELSE /\ Exhausted(f)
                /\ EnterFinally
                /\ UNCHANGED <<force_exit, results, taken, outputs, raised, caught,
                               notified>>
    /\ UNCHANGED <<stages, pools, inputs, ordered, poolState, genCount, genDone,
                   inqueue, slot, disposed, cleaned, closed, ctorFailed, failed,
                   startFE>>
    /\ UNCHANGED auxVars
    /\ UNCHANGED initVars
    /\ UNCHANGED seqVars
    /\ UNCHANGED <<bar, total, cleanups>>
    /\ UNCHANGED other

\* the caller closes the generator while it is suspended at the yield of
\* line 167: GeneratorExit is caught at line 216
Close ==
    /\ pc = "running"
    /\ Len(outputs) > 0
    /\ closed' = TRUE
    /\ force_exit' = ForceExitOnError
    /\ EnterFinally
    /\ UNCHANGED <<stages, pools, inputs, ordered, poolVars, outputs, raised, caught,
                   ctorFailed, failed, startFE>>
    /\ UNCHANGED auxVars
    /\ UNCHANGED initVars
    /\ UNCHANGED seqVars
    /\ UNCHANGED progVars
    /\ UNCHANGED other

\* ---- PipelineTQDM.cleanup (pipeline_tqdm.py lines 119-128) ---------------
\* line 122, if pbar: the truth value of a tqdm bar is total > 0 when it has a
\* total, and asking for it raises TypeError when it has neither a total nor
\* an iterable
BarTruth == IF total = <<>> THEN "raises" ELSE IF total[1] > 0 THEN "true" ELSE "false"

\* the TypeError of line 122
BarError == [id |-> "TypeError", msg |-> "bool() undefined when iterable == total == None"]

\* line 223: self._progress.cleanup(). With no bar the loop of line 121 is
\* empty. Otherwise the bar is closed if it is true; if its truth value
\* raises, the error leaves cleanup (line 122 is outside the try of line 123)
\* and leaves run's finally block before line 224
ProgressCleanup ==
    /\ pc = "cleanup"
    /\ cleanups' = cleanups + 1
    /\ IF bar = "none" \/ BarTruth = "false"
       THEN /\ pc' = "stop_pools"
            /\ UNCHANGED <<bar, raised>>
       ELSE IF BarTruth = "true"
       THEN /\ pc' = "stop_pools"
            /\ bar' = "closed"
            /\ UNCHANGED raised
       ELSE /\ pc' = "ended"
            /\ raised' = <<Plain(BarError)>>
            /\ UNCHANGED bar
    /\ UNCHANGED <<force_exit, stages, running, pools, inputs, ordered, poolVars,
                   stopVars, outputs, caught, closed, ctorFailed, failed, startFE,
                   auxVars, initVars, seqVars, total, notified>>
    /\ UNCHANGED other

\* ---- Pipeline._stop_pools (lines 75-100) ---------------------------------
StopPool == pools[stopIdx + 1]

\* line 83: pool.map hands pool._processes cleanup tasks to the pool; the
\* pool's task handler takes them up after the task sequence of imap. On a
\* pool that is no longer running pool.map raises, which line 84 catches
StopMap ==
    /\ pc = "stop_pools"
    /\ stopIdx < Len(pools)
    /\ stopPhase = "map"
    /\ genDone[StopPool]
    /\ IF poolState[StopPool] = "run"
       THEN /\ inqueue' = [inqueue EXCEPT ![StopPool] =
                   @ \o [j \in 1..stages[StopPool + 1] |-> CleanupTask]]
            /\ UNCHANGED mapRaised
       ELSE /\ mapRaised' = TRUE
            /\ UNCHANGED inqueue
    /\ stopPhase' = "wait"
    /\ UNCHANGED <<force_exit, stages, running, pools, pc, inputs, ordered, poolState,
                   genCount, genDone, slot, results, taken, disposed, cleaned,
                   stopIdx, stopFrom, histVars, tdErrors, termCalls>>
    /\ UNCHANGED initVars
    /\ UNCHANGED seqVars
    /\ UNCHANGED progVars
    /\ UNCHANGED other

\* line 83 is over: every cleanup task has completed, or pool.map raised
MapReturned == cleaned[StopPool] = stages[StopPool + 1] \/ mapRaised

\* a _stop_pools that leaves the pool running
LeavePool(ps, s) == ps

\* lines 87-90: terminate, close, join
TerminatePool(ps, s) == [ps EXCEPT ![s] = "terminated"]

\* pool.map has returned; the pool is terminated: tasks not yet taken are
\* dropped and the result of an item a slot is still processing is lost
StopTerminate ==
    /\ pc = "stop_pools"
    /\ stopIdx < Len(pools)
    /\ stopPhase = "wait"
    /\ MapReturned
    /\ poolState' = TerminatePool(poolState, StopPool)
    /\ inqueue' = [inqueue EXCEPT ![StopPool] = <<>>]
    /\ slot' = [slot EXCEPT ![StopPool] = [w \in SlotRange |-> Idle]]
    /\ stopIdx' = stopIdx + 1
    /\ stopPhase' = "map"
    /\ mapRaised' = FALSE
    /\ termCalls' = [termCalls EXCEPT ![StopPool] = @ + 1]
    /\ UNCHANGED <<force_exit, stages, running, pools, pc, inputs, ordered, genCount,
                   genDone, results, taken, disposed, cleaned, stopFrom, histVars,
                   tdErrors>>
    /\ UNCHANGED initVars
    /\ UNCHANGED seqVars
    /\ UNCHANGED progVars
    /\ UNCHANGED other

\* a _stop_pools that keeps the pools it has stopped in self._pools
ClearPoolsKeep == pools

\* line 100
ClearPools == <<>>

\* the loop is over. Called from line 142, _init_pools raises the
\* constructor's error again: run catches it at line 216 and its finally
\* block calls _stop_pools once more. Called from line 224, run is over.
StopDone ==
    /\ pc = "stop_pools"
    /\ stopIdx = Len(pools)
    /\ pools' = ClearPools
    /\ IF stopFrom = "init"
       THEN /\ force_exit' = ForceExitOnError
            /\ raised' = <<Plain(PoolError)>>
            /\ EnterFinally
       ELSE /\ pc' = "ended"
            /\ UNCHANGED <<force_exit, running, stopVars, raised>>
    /\ UNCHANGED <<stages, inputs, ordered, poolVars, outputs, caught, closed,
                   ctorFailed, failed, startFE>>
    /\ UNCHANGED auxVars
    /\ UNCHANGED initVars
    /\ UNCHANGED seqVars
    /\ UNCHANGED progVars
    /\ UNCHANGED other

Next ==
    \/ Then
    \/ ClearStages
    \/ RunEmpty
    \/ Run
    \/ CreatePool
    \/ PoolCtorFails
    \/ StartStages
    \/ Feed0
    \/ \E s \in StageRange : Feed(s)
    \/ \E s \in StageRange, w \in SlotRange : WorkerTake(s, w)
    \/ \E s \in StageRange, w \in SlotRange : WorkerProcess(s, w)
    \/ Pull
    \/ Close
    \/ ProgressCleanup
    \/ StopMap
    \/ StopTerminate
    \/ StopDone

\* ---- _stop_pools when a teardown step fails -------------------------------
\* an error of a dispose hook or of terminate/close/join
TeardownError == [id |-> "teardown_error", msg |-> "cleanup failed"]

\* a _stop_pools that lets the error of a teardown step reach the caller
TeardownRaisedMasks(r, e) == <<Plain(e)>>

\* lines 84-86 and 91-92, 98-99: the error e of a teardown step is caught
\* (and, at line 92, reported by warnings.warn); what run raises stays r
TeardownRaised(r, e) == r

\* the teardown of lines 220-224 after the handler of line 210 has caught the
\* WorkerException of a stage
AfterFailure == stopFrom = "finally" /\ caught # <<>>

\* lines 34-35 in a slot whose __dispose__ raises: the hook has been invoked
\* and the cleanup task is over; pool.map raises once all its tasks are over
\* and line 84 catches that
DisposeRaises(s, w) ==
    /\ s \in Stages
    /\ w \in Slots(s)
    /\ poolState[s] = "run"
    /\ alive[s][w]
    /\ ~slot[s][w].busy
    /\ inqueue[s] # <<>>
    /\ Head(inqueue[s]).kind = "cleanup"
    /\ AfterFailure
    /\ inqueue' = [inqueue EXCEPT ![s] = Tail(@)]
    /\ disposed' = [disposed EXCEPT ![s][w] = @ + 1]
    /\ cleaned' = [cleaned EXCEPT ![s] = @ + 1]
    /\ tdErrors' = tdErrors \cup {<<"dispose", s>>}
    /\ raised' = TeardownRaised(raised, TeardownError)
    /\ UNCHANGED <<force_exit, stages, running, pools, pc, inputs, ordered, poolState,
                   genCount, genDone, slot, results, taken, stopVars, outputs, caught,
                   closed, ctorFailed, failed, startFE, mapRaised, termCalls>>
    /\ UNCHANGED initVars
    /\ UNCHANGED seqVars
    /\ UNCHANGED progVars
    /\ UNCHANGED other

\* lines 87-99 when a step raises: either join (line 90) fails on a pool that
\* terminate has stopped, or terminate fails at line 87 and again at line 97
\* and the pool is left running; the loop of line 77 goes on
TerminateFails ==
    /\ pc = "stop_pools"
    /\ stopIdx < Len(pools)
    /\ stopPhase = "wait"
    /\ MapReturned
    /\ AfterFailure
    /\ \/ /\ poolState' = TerminatePool(poolState, StopPool)
          /\ inqueue' = [inqueue EXCEPT ![StopPool] = <<>>]
          /\ slot' = [slot EXCEPT ![StopPool] = [w \in SlotRange |-> Idle]]
          /\ tdErrors' = tdErrors \cup {<<"join", StopPool>>}
       \/ /\ tdErrors' = tdErrors \cup {<<"terminate", StopPool>>}
          /\ UNCHANGED <<poolState, inqueue, slot>>
    /\ raised' = TeardownRaised(raised, TeardownError)
    /\ stopIdx' = stopIdx + 1
    /\ stopPhase' = "map"
    /\ mapRaised' = FALSE
    /\ termCalls' = [termCalls EXCEPT ![StopPool] = @ + 1]
    /\ UNCHANGED <<force_exit, stages, running, pools, pc, inputs, ordered, genCount,
                   genDone, results, taken, disposed, cleaned, stopFrom, outputs,
                   caught, closed, ctorFailed, failed, startFE>>
    /\ UNCHANGED initVars
    /\ UNCHANGED seqVars
    /\ UNCHANGED progVars
    /\ UNCHANGED other

NextTeardown ==
    \/ Next
    \/ \E s \in StageRange, w \in SlotRange : DisposeRaises(s, w)
    \/ TerminateFails

\* ---- _init_worker raises (lines 38-47) ------------------------------------
\* what a worker's constructor or __local_init__ raises
InitFailure == [id |-> "init_error", msg |-> "cannot construct worker"]

\* line 47: what the initializer raises inside the slot's thread or process
InitError(s) == WorkerException(InitFailure, WorkerName(s), <<>>)

\* lines 127-140 when the worker's constructor or __local_init__ raises in
\* the slots D of the new pool: the pool constructor has started the slots
\* and returns; the WorkerException of line 47 ends the thread or process of
\* each slot of D and goes no further
CreatePoolInitFails ==
    /\ pc = "init_pools"
    /\ Len(pools) < NumStages
    /\ pools' = Append(pools, Len(pools))
    /\ poolState' = [poolState EXCEPT ![Len(pools)] = "run"]
    /\ \E D \in (SUBSET Slots(Len(pools))) \ {{}} :
          alive' = [alive EXCEPT ![Len(pools)] = [w \in SlotRange |-> w \notin D]]
    /\ initFailed' = TRUE
    /\ UNCHANGED <<force_exit, stages, running, pc, inputs, ordered, genCount,
                   genDone, inqueue, slot, results, taken, disposed, cleaned,
                   stopVars, histVars, auxVars>>
    /\ UNCHANGED seqVars
    /\ UNCHANGED progVars
    /\ UNCHANGED other

\* the pool's worker handler replaces the slot's dead thread or process; the
\* initializer of the new one succeeds
Respawn(s, w) ==
    /\ s \in Stages
    /\ w \in Slots(s)
    /\ poolState[s] = "run"
    /\ ~alive[s][w]
    /\ alive' = [alive EXCEPT ![s][w] = TRUE]
    /\ UNCHANGED <<force_exit, stages, running, pools, pc, inputs, ordered, poolVars,
                   stopVars, histVars, auxVars, initFailed>>
    /\ UNCHANGED seqVars
    /\ UNCHANGED progVars
    /\ UNCHANGED other

\* ---- a second run of the same Pipeline, started before the first is over --
\* the pools of the suspended run have nothing left to do: every task
\* generator is exhausted, every task taken, every slot idle
Quiescent ==
    \A s \in Stages :
        /\ genDone[s]
        /\ inqueue[s] = <<>>
        /\ \A w \in Slots(s) : ~slot[s][w].busy

\* what the suspended run's next() will find at line 153: the end of the
\* results, a result, or a WorkerException that line 213 raises again or not
Pending ==
    LET k == NextPos(LastStage) IN
    IF k = 0 THEN "done"
    ELSE IF results[LastStage][k].ok THEN "item"
    ELSE IF Surfaced(results[LastStage][k].exc[1]) THEN "error" ELSE "sentinel"

\* the caller, holding the first run suspended at the yield of line 167,
\* calls run again on the same Pipeline and starts driving the second run:
\* lines 186-192 act on the same self._running and self._pools (line 123
\* replaces the list, the first run's pools are in it no more)
RunOverlap ==
    /\ pc = "running"
    /\ Len(outputs) > 0
    /\ other = <<>>
    /\ Quiescent
    /\ other' = <<[given |-> Len(inputs), yielded |-> Len(outputs),
                   pending |-> Pending,
                   livePools |-> {s \in Stages : poolState[s] = "run"},
                   raised |-> FALSE, over |-> FALSE]>>
    /\ RunBody(FALSE, TRUE)

\* the second run has ended; the caller goes on with the first: next() at
\* line 153 returns the pending result, raises the pending error or stops.
\* For a result line 160 finds self._running false (line 221 of the second
\* run) and breaks. Whatever ends the first run, its finally block calls
\* _stop_pools on self._pools, which holds none of its own pools
Resume ==
    /\ pc = "ended"
    /\ other # <<>>
    /\ ~other[1].over
    /\ ~KeepGoing
    /\ LET o == other[1] IN
       /\ other' = <<[o EXCEPT
              !.over = TRUE,
              !.raised = (o.pending = "error"),
              !.livePools = o.livePools \ {pools[j] : j \in 1..Len(pools)}]>>
       /\ force_exit' = IF o.pending \in {"error", "sentinel"}
                        THEN ForceExitOnError ELSE force_exit
    /\ pools' = ClearPools
    /\ UNCHANGED <<stages, running, pc, inputs, ordered, poolVars, stopVars, histVars,
                   auxVars, initVars, seqVars, progVars>>

NextOverlap ==
    \/ Next
    \/ RunOverlap
    \/ Resume

NextProgress ==
    \/ Next
    \/ RunProgress

NextInit ==
    \/ Next
    \/ CreatePoolInitFails
    \/ \E s \in StageRange, w \in SlotRange : Respawn(s, w)

\* ---- what a run is expected to yield -------------------------------------
RECURSIVE Upto(_, _)
\* the process functions of stages 0..k-1 applied, in stage order, to x
Upto(k, x) == IF k = 0 THEN x ELSE Process(k - 1, Upto(k - 1, x))

Expected == [j \in 1..Len(inputs) |-> Upto(NumStages, inputs[j])]

Occurrences(q, v) == Cardinality({j \in 1..Len(q) : q[j] = v})

SameBag(a, b) ==
    /\ Len(a) = Len(b)
    /\ \A j \in 1..Len(a) : Occurrences(a, a[j]) = Occurrences(b, a[j])

\* the run is over, nothing failed in it, it started with the flag down and
\* the caller consumed it to the end
CleanRunEnded ==
    /\ pc = "ended"
    /\ ~startFE
    /\ failed = {}
    /\ ~ctorFailed
    /\ ~closed

\* C1: a run with ordered_result = true in which no worker fails, started
\* with ForceExit false, yields exactly one output per input, the j-th being
\* the stages' process functions applied in stage order to the j-th input.
C1_OrderPreservation == (CleanRunEnded /\ ordered) => outputs = Expected

C1_Witness ==
    /\ CleanRunEnded
    /\ ordered
    /\ NumStages > 1
    /\ Len(inputs) > 1
    /\ inputs[1] # inputs[2]
    /\ \E s \in Stages : stages[s + 1] > 1
    /\ outputs = Expected

\* C2: a run with ordered_result = false in which no worker fails yields the
\* same multiset of outputs as the ordered run: nothing lost, duplicated or
\* invented, only the order may differ.
C2_UnorderedCompleteness == (CleanRunEnded /\ ~ordered) => SameBag(outputs, Expected)

C2_Witness ==
    /\ CleanRunEnded
    /\ ~ordered
    /\ NumStages > 1
    /\ outputs # Expected
    /\ SameBag(outputs, Expected)

\* C3: if a process call fails during a run that started with ForceExit
\* false and that the caller consumes to its end, run raises an error to the
\* caller that names the worker type of the stage that failed.
C3_FailFast ==
    (pc = "ended" /\ ~startFE /\ ~closed /\ failed # {}) =>
        /\ raised # <<>>
        /\ \E f \in failed : raised[1].worker_name = WorkerName(f.stage)

\* C4: the offending input attached to the error run raises for a processing
\* failure in stage i is the payload stage i's worker received for that item
\* (stages 0..i-1 applied to the original input), unchanged by later stages.
C4_OffendingInput ==
    (raised # <<>> /\ raised[1].orig_exc.id = "worker_error") =>
        \E f \in failed :
            /\ raised[1].worker_name = WorkerName(f.stage)
            /\ raised[1].inp = <<f.inp>>
            /\ f.inp = Upto(f.stage, inputs[f.seq + 1])

C4_Witness ==
    /\ raised # <<>>
    /\ raised[1].orig_exc.id = "worker_error"
    /\ \E f \in failed :
            /\ f.stage > 0
            /\ raised[1].worker_name = WorkerName(f.stage)
            /\ raised[1].inp = <<f.inp>>
            /\ f.inp # inputs[f.seq + 1]

\* C5: when run has finished, the dispose hook of every worker of every pool
\* the run created has been called exactly once.
C5_ExactlyOnceDisposal ==
    pc = "ended" =>
        \A s \in Stages : poolState[s] = "terminated" =>
            \A w \in Slots(s) : disposed[s][w] = 1

C7_NoPartialSuccess ==
    (pc = "ended" /\ ~closed) => (Len(outputs) = Len(inputs) \/ raised # <<>>)

\* C8: a WorkerException that reaches the controller is raised to the caller
\* if and only if its original error is not the forced-shutdown sentinel.
C8_SentinelOnly ==
    caught # <<>> => ((raised # <<>>) <=> (caught[1].orig_exc # FORCE_EXIT_EXCEPTION))

\* C9 as stated: the flag never goes back to false, and it goes from false to
\* true only in a step in which the controller observes a fatal failure (a
\* WorkerException from a stage or an error of pool construction).
C9_OnlyOnFailure ==
    [][/\ force_exit => force_exit'
       /\ (~force_exit /\ force_exit') => (caught' # <<>> \/ ctorFailed')]_vars

\* C9 as amended: the flag never goes back to false, and it goes from false
\* to true only in a step in which run leaves through one of its exception
\* handlers: a WorkerException from a stage, an error of pool construction,
\* or the caller closing the partially consumed result sequence.
C9_Lifecycle ==
    [][/\ force_exit => force_exit'
       /\ (~force_exit /\ force_exit') =>
             /\ pc \in {"running", "stop_pools"}
             /\ pc' = "cleanup"
             /\ (caught' # <<>> \/ ctorFailed' \/ closed')]_vars

C9_Witness ==
    /\ pc = "ended"
    /\ startFE
    /\ force_exit

\* C10: an item whose ForceExit check happens once the flag is true is never
\* passed to the process hook: the slot fails with a WorkerException that
\* wraps the sentinel. A slot starts processing only if its check saw false.
C10_ForceExitGate ==
    [][\A s \in StageRange :
        /\ \A w \in SlotRange :
              (~slot[s][w].busy /\ slot'[s][w].busy) => ~force_exit
        /\ ( /\ force_exit
             /\ inqueue[s] # <<>>
             /\ Head(inqueue[s]).kind = "item"
             /\ inqueue'[s] = Tail(inqueue[s])
             /\ poolState'[s] = "run" ) =>
                results'[s] = Append(results[s],
                    Failure(Head(inqueue[s]).idx,
                            WorkerException(FORCE_EXIT_EXCEPTION, WorkerName(s), <<>>)))]_vars

C10_Witness ==
    /\ force_exit
    /\ ~startFE
    /\ \E s \in Stages : \E k \in 1..Len(results[s]) :
         /\ ~results[s][k].ok
         /\ results[s][k].exc[1] = ForceExitError(s)

\* C11: when a step of the teardown that follows a processing failure has
\* failed (a dispose hook, or terminate/close/join of some pool), the ended
\* run has raised the original processing failure and nothing else, the set
\* of live pools is empty, and every pool but those whose own terminate failed
\* is terminated
C11_NoMasking ==
    (pc = "ended" /\ caught # <<>> /\ Surfaced(caught[1]) /\ tdErrors # {}) =>
        /\ raised = <<ReRaise(caught[1])>>
        /\ pools = <<>>
        /\ \A s \in Stages :
               poolState[s] = "run" => <<"terminate", s>> \in tdErrors

\* a processing failure, then a dispose hook and terminate fail on the first
\* pool; the second pool is terminated all the same
C11_Witness ==
    /\ pc = "ended"
    /\ failed # {}
    /\ caught # <<>>
    /\ raised = <<caught[1]>>
    /\ NumStages = 2
    /\ {<<"dispose", 0>>, <<"terminate", 0>>} \subseteq tdErrors
    /\ poolState[0] = "run"
    /\ poolState[1] = "terminated"

\* C12: _stop_pools passes over no pool more than once in a run; when the
\* cleanup of line 142 has run and the cleanup of line 224 runs or has run
\* again, the set of live pools is empty the whole time, every pool the first
\* cleanup stopped is terminated as it left it, and the caller gets nothing
\* but the constructor's error
C12_IdempotentTeardown ==
    /\ \A s \in StageRange : termCalls[s] <= 1
    /\ (ctorFailed /\ stopFrom = "finally" /\ pc \in {"stop_pools", "ended"}) =>
           /\ pools = <<>>
           /\ \A s \in StageRange : poolState[s] # "run"
           /\ raised = <<Plain(PoolError)>>

\* the second pool's constructor failed, the first pool was stopped by the
\* cleanup of line 142, and the cleanup of line 224 has run as well
C12_Witness ==
    /\ pc = "ended"
    /\ ctorFailed
    /\ stopFrom = "finally"
    /\ termCalls[0] = 1
    /\ poolState[0] = "terminated"

\* C13: a run in which the worker's constructor or __local_init__ has failed
\* in some slot processes no item, and when it has ended it has raised to the
\* caller the WorkerException of that failure: original error, the worker's
\* type name, no offending input
C13_InitFailureSurfaced ==
    initFailed =>
        /\ \A s \in Stages : \A w \in Slots(s) : ~slot[s][w].busy
        /\ pc = "ended" => \E s \in Stages : raised = <<InitError(s)>>

\* C14: every step the controller takes on a pipeline whose stage list is
\* empty is a run that fails with the configuration error and leaves the
\* pools, the workers, the inputs and the force_exit flag as they were
C14_EmptyPipeline ==
    [][(NumStages = 0 /\ stages' = stages) =>
          /\ pc' = "config_error"
          /\ raised' = <<Plain(ConfigError)>>
          /\ pools' = <<>>
          /\ UNCHANGED <<force_exit, running, pools, inputs, poolVars, outputs,
                         alive>>]_vars

\* a run on the emptied pipeline has failed while the flag, left true by an
\* earlier run, is still true
C14_Witness ==
    /\ pc = "config_error"
    /\ NumStages = 0
    /\ raised = <<Plain(ConfigError)>>
    /\ force_exit

\* C15: while a run is under way, a stage that is given more inputs than it
\* has slots has not completed the whole input as long as its downstream (the
\* next stage, or the caller) has consumed none of its results
C15_Backpressure ==
    \A s \in Stages :
        (pc = "running" /\ Len(inputs) > stages[s + 1] /\ taken[s] = 0) =>
            Len(results[s]) < Len(inputs)

\* C16: in an ended run with no failure, consumed to its end, every stage was
\* fed exactly n items, numbered exactly 0..n-1 (so each number once), number
\* k being on the item that comes from input k, and every item a stage
\* processed left with the number it came in with
C16_SequenceIntegrity ==
    CleanRunEnded =>
        \A s \in Stages :
            /\ genCount[s] = Len(inputs)
            /\ entered[s] = {<<k, Upto(s, inputs[k + 1])>> : k \in 0..(Len(inputs) - 1)}
            /\ left[s] = {<<k, k>> : k \in 0..(Len(inputs) - 1)}

\* an unordered two-stage run in which the second stage was fed item 1
\* before item 0
C16_Witness ==
    /\ CleanRunEnded
    /\ ~ordered
    /\ NumStages = 2
    /\ Len(inputs) = 2
    /\ outputs = <<Expected[2], Expected[1]>>
    /\ Expected[1] # Expected[2]

\* C17: update_main_progress(1) has been called exactly once for each output
\* handed to the caller, and when the run has ended the progress object has
\* been cleaned up exactly once and no bar of it is left open
C17_ProgressNotifications ==
    /\ notified = Len(outputs)
    /\ pc = "ended" => (cleanups = 1 /\ bar # "open")

\* the smallest sequence number of an item whose process call failed
FirstFailed == CHOOSE k \in {f.seq : f \in failed} : \A f \in failed : k <= f.seq

\* C18: when an ordered run in which some item failed has ended without the
\* caller closing it, the caller has received the outputs of the items before
\* the smallest failed sequence number k, in input order, no other output, and
\* then the error of item k
C18_FailurePosition ==
    (pc = "ended" /\ ordered /\ failed # {} /\ ~closed) =>
        /\ outputs = [j \in 1..FirstFailed |-> Expected[j]]
        /\ raised # <<>>
        /\ \E f \in failed :
              /\ f.seq = FirstFailed
              /\ raised[1].worker_name = WorkerName(f.stage)
              /\ raised[1].inp = <<f.inp>>

C20_PoolOwnership ==
    (other # <<>> /\ other[1].over) =>
        /\ other[1].livePools = {}
        /\ (~other[1].raised => other[1].yielded = other[1].given)

Spec == Init /\ [][Next]_vars

SpecOverlap == Init /\ [][NextOverlap]_vars

SpecProgress == Init /\ [][NextProgress]_vars

SpecInit == Init /\ [][NextInit]_vars

SpecTeardown == Init /\ [][NextTeardown]_vars
====
